---------------------------- MODULE Spec2Model ----------------------------
(***************************************************************************)
(* A model of repo_function_deepdive.py: the span locator (_brace_span),   *)
(* the heuristic JS/TS extractor (parse_js_functions), the grammar-aware   *)
(* Python extractor (parse_python_functions), the grouping engine          *)
(* (build_groups), the per-file analysis (analyze_file with                *)
(* make_group_prompt), the retry loop of call_openai, and the pool of      *)
(* workers of main.  Each of them has its own variables and its own        *)
(* specification; the variables of the others stay at their idle values.   *)
(*                                                                         *)
(* Conventions.  Python indices are kept as they are: a text is a TLA+     *)
(* sequence, At(code, i) is Python's code[i] (0-based), Slice(code, a, b)  *)
(* is code[a:b], and -1 is the "not found" value of str.find and of        *)
(* _brace_span.  Python sets are TLA+ sets, dicts are functions whose      *)
(* DOMAIN is the key set, lists are sequences.                             *)
(***************************************************************************)
EXTENDS Integers, Sequences, FiniteSets, TLC

VARIABLES
    names,      \* build_groups: the parameter `names` (a list of distinct names)
    edges,      \* build_groups: the parameter `edges` (dict name -> set of names)
    groups,     \* build_groups: the returned list of groups
    groups0,    \* the list returned by the first call on this name set / projection
    called,     \* whether build_groups has returned
    visited,    \* build_groups: the names in the order seen.add marked them
    last,       \* the last operation of the grouping specification
    b_code,     \* _brace_span: the parameter `code`
    b_start,    \* _brace_span: the parameter `start_brace_idx`
    b_ret,      \* _brace_span: the returned index
    b_pc,       \* _brace_span: "idle", "call" (not yet run) or "returned"
    j_items,    \* the JS/TS source file as written: its top-level items
    j_code,     \* parse_js_functions: the parameter `code`
    j_pat,      \* parse_js_functions: index into JS_FUNC_PATTERNS (outer loop)
    j_pos,      \* parse_js_functions: where rx.finditer searches next
    j_seen,     \* parse_js_functions: the dict `seen`
    j_edges,    \* analyze_file, JS/TS path: the dict `edges`
    j_callers,  \* analyze_file, JS/TS path: the dict `callers`
    j_groups,   \* analyze_file, JS/TS path: the list `groups`
    j_pc,       \* "idle", "parse", "parsed", "graph" or "empty"
    a_file,     \* analyze_file: the source file at path p
    a_max,      \* analyze_file: the parameter max_snippet_chars
    a_dry,      \* analyze_file: the parameter dry_run
    a_funcs,    \* analyze_file: the dict `funcs` (Python) or `jmap` (JS/TS)
    a_edges,    \* analyze_file: the dict `edges`
    a_callers,  \* analyze_file: the dict `callers`
    a_groups,   \* analyze_file: the list `groups`
    a_idx,      \* analyze_file: the loop variable idx of the group loop
    a_prompts,  \* the calls of make_group_prompt so far, one per group
    a_written,  \* the texts written so far: group index -> kind of text
    a_generated,\* analyze_file: the list `generated` (group indices of paths)
    a_pc,       \* "idle", "start", "parsed", "groups", "returned", "raised"
    r_files,    \* main: the list `files`
    r_workers,  \* main: max(1, args.max_workers), the size of the pool
    r_task,     \* per file: "queued", "running", "returned" or "raised"
    r_count,    \* per file: the number of groups analyze_file finds in it
    r_idx,      \* per file: idx of the next group report of its analyze_file
    r_disk,     \* the output tree: report path -> the file whose report it holds
    r_wrote,    \* the writes so far: pairs <<source file, report path>>
    r_seen,     \* main: the futures as_completed has yielded so far
    r_all,      \* main: the list generated_all
    r_pc,       \* main: "idle", "collect" or "done"
    o_retries,  \* call_openai: the parameter retries
    o_i,        \* call_openai: the loop variable i
    o_last_err, \* call_openai: the variable last_err
    o_log,      \* the outcomes of the attempts made so far
    o_slept,    \* the arguments of time.sleep so far, in half seconds
    o_result,   \* what call_openai returned or raised
    o_pc        \* "idle", "try", "sleep", "returned" or "raised"

gvars == <<names, edges, groups, groups0, called, visited, last>>

bvars == <<b_code, b_start, b_ret, b_pc>>

jvars == <<j_items, j_code, j_pat, j_pos, j_seen, j_edges, j_callers,
           j_groups, j_pc>>

avars == <<a_file, a_max, a_dry, a_funcs, a_edges, a_callers, a_groups,
           a_idx, a_prompts, a_written, a_generated, a_pc>>

rvars == <<r_files, r_workers, r_task, r_count, r_idx, r_disk, r_wrote,
           r_seen, r_all, r_pc>>

ovars == <<o_retries, o_i, o_last_err, o_log, o_slept, o_result, o_pc>>

vars == <<gvars, bvars, jvars, avars, rvars, ovars>>

-----------------------------------------------------------------------------
(* Names and Python's string order                                          *)

\* The names of the model, listed in Python's (code point) string order.
NameOrder == <<"a", "b", "c", "catch", "d", "f", "function", "g", "if">>

\* The names the inputs of the grouping specification are made of.
NameU == {"a", "b", "c", "d"}

\* Bounds of the grouping specification.
MaxNames == 3
MaxEdges == 2

Rank(n) == CHOOSE i \in 1..Len(NameOrder) : NameOrder[i] = n

\* Python's  a < b  on two names of NameU.
StrLess(a, b) == Rank(a) < Rank(b)

SeqToSet(s) == {s[i] : i \in 1..Len(s)}

\* Python's sorted(S) for a set of names: ascending.
RECURSIVE sorted(_)
sorted(S) ==
    IF S = {} THEN <<>>
    ELSE LET m == CHOOSE x \in S : \A y \in S : ~StrLess(y, x)
         IN  <<m>> \o sorted(S \ {m})

-----------------------------------------------------------------------------
(* build_groups, lines 196-219                                              *)

\* Line 198: graph = {n: set() for n in names}
EmptyGraph(ns) == [n \in SeqToSet(ns) |-> {}]

\* Lines 201-203, the mutant: only the caller's side of the link is added.
AddEdgeOneWay(graph, a, b) ==
    IF b \in DOMAIN graph /\ b # a
    THEN [graph EXCEPT ![a] = @ \cup {b}]
    ELSE graph

\* Lines 201-203: if b in graph and b != a: graph[a].add(b); graph[b].add(a)
AddEdge(graph, a, b) ==
    IF b \in DOMAIN graph /\ b # a
    THEN [graph EXCEPT ![a] = @ \cup {b}, ![b] = @ \cup {a}]
    ELSE graph

\* The (a, b) pairs the two loops of lines 199-200 go through.
EdgePairs(es) == UNION {{<<a, b>> : b \in es[a]} : a \in DOMAIN es}

\* Lines 199-203: the loops over edges.items() and over each neighbour set.
RECURSIVE BuildGraph(_, _)
BuildGraph(graph, pairs) ==
    IF pairs = {} THEN graph
    ELSE LET p == CHOOSE q \in pairs : TRUE
         IN  BuildGraph(AddEdge(graph, p[1], p[2]), pairs \ {p})

\* Lines 210-215: the while loop over the stack.  `order` lists the names in
\* the order in which seen.add(cur) marks them.
RECURSIVE Traverse(_, _, _, _, _)
Traverse(graph, stack, seen, comp, order) ==
    IF stack = <<>>
    THEN [seen |-> seen, comp |-> comp, order |-> order]
    ELSE LET cur  == stack[Len(stack)]
             rest == SubSeq(stack, 1, Len(stack) - 1)
         IN  IF cur \in seen
             THEN Traverse(graph, rest, seen, comp, order)
             ELSE LET seen2 == seen \cup {cur}
                  IN  Traverse(graph, rest \o sorted(graph[cur] \ seen2),
                               seen2, comp \cup {cur}, Append(order, cur))

\* Lines 206-216, the mutant: the test `if n in seen: continue` is dropped.
RECURSIVE ComponentsNoSkip(_, _, _, _, _, _)
ComponentsNoSkip(ns, i, graph, seen, gs, order) ==
    IF i > Len(ns) THEN [groups |-> gs, order |-> order]
    ELSE LET r == Traverse(graph, <<ns[i]>>, seen, {}, order)
         IN  ComponentsNoSkip(ns, i + 1, graph, r.seen,
                              Append(gs, r.comp), r.order)

\* Lines 206-216: for n in names: ... groups.append(comp)
RECURSIVE Components(_, _, _, _, _, _)
Components(ns, i, graph, seen, gs, order) ==
    IF i > Len(ns) THEN [groups |-> gs, order |-> order]
    ELSE IF ns[i] \in seen
         THEN Components(ns, i + 1, graph, seen, gs, order)
         ELSE LET r == Traverse(graph, <<ns[i]>>, seen, {}, order)
              IN  Components(ns, i + 1, graph, r.seen,
                             Append(gs, r.comp), r.order)

\* Line 218, the key of a group: (-len(g), sorted(g)[0] if g else "").
KeySize(g) == 0 - Cardinality(g)

\* Line 218, the mutant: the key is the size alone.
KeyNameDropped(g) == ""

KeyName(g) == IF g # {} THEN sorted(g)[1] ELSE ""

\* Python's tuple comparison key(g) < key(h); "" is below every name.
KeyLess(g, h) ==
    \/ KeySize(g) < KeySize(h)
    \/ /\ KeySize(g) = KeySize(h)
       /\ KeyName(g) # KeyName(h)
       /\ \/ KeyName(g) = ""
          \/ KeyName(h) # "" /\ StrLess(KeyName(g), KeyName(h))

\* Insertion of g into a list sorted by key, after the entries whose key is
\* not greater (list.sort is stable).
RECURSIVE InsertByKey(_, _)
InsertByKey(sortedGs, g) ==
    IF sortedGs = <<>> THEN <<g>>
    ELSE IF KeyLess(g, sortedGs[1])
         THEN <<g>> \o sortedGs
         ELSE <<sortedGs[1]>> \o InsertByKey(Tail(sortedGs), g)

RECURSIVE SortFrom(_, _)
SortFrom(gs, acc) ==
    IF gs = <<>> THEN acc
    ELSE SortFrom(Tail(gs), InsertByKey(acc, gs[1]))

\* Line 218, the mutant: the list is returned in discovery order.
SortGroupsOmitted(gs) == gs

\* Line 218: groups.sort(key=lambda g: (-len(g), sorted(g)[0] if g else ""))
SortGroups(gs) == SortFrom(gs, <<>>)

\* build_groups(names, edges): the returned list and the marking order.
BuildGroupsRun(ns, es) ==
    LET graph == BuildGraph(EmptyGraph(ns), EdgePairs(es))
        r     == Components(ns, 1, graph, {}, <<>>, <<>>)
    IN  [groups |-> SortGroups(r.groups), order |-> r.order, graph |-> graph]

build_groups(ns, es) == BuildGroupsRun(ns, es).groups

-----------------------------------------------------------------------------
(* Texts, and _brace_span, lines 128-153                                    *)

\* Python's code[i], s.find(ch, from) and code[a:b] (0 <= a).
At(code, i) == code[i + 1]

Slice(code, a, b) ==
    LET e == IF b > Len(code) THEN Len(code) ELSE b
    IN  IF a >= e THEN <<>> ELSE SubSeq(code, a + 1, e)

Find(code, ch, from) ==
    LET hits == {i \in from..(Len(code) - 1) : At(code, i) = ch}
    IN  IF hits = {} THEN -1
        ELSE CHOOSE i \in hits : \A j \in hits : i <= j

SQ == "'"
DQ == "\""
\* The backtick (it cannot be written in a TLA+ string).
BT == "BT"
BS == "\\"
LB == "{"
RB == "}"
\* Any character that is neither a quote, a backslash nor a brace.
OtherChar == "x"

\* Line 144: the characters that open a quoted region.
Quotes == {SQ, DQ, BT}

\* Line 132: in_str = None.
None == "None"

\* Lines 148-151, the mutant: braces are counted inside quoted regions too.
RECURSIVE BraceScanNoQuotes(_, _, _)
BraceScanNoQuotes(code, i, depth) ==
    IF i >= Len(code) THEN -1
    ELSE LET ch == At(code, i)
         IN  IF ch = LB THEN BraceScanNoQuotes(code, i + 1, depth + 1)
             ELSE IF ch = RB
             THEN IF depth - 1 = 0 THEN i
                  ELSE BraceScanNoQuotes(code, i + 1, depth - 1)
             ELSE BraceScanNoQuotes(code, i + 1, depth)

\* Lines 134-153: the while loop, from position i with the loop's variables.
RECURSIVE BraceScan(_, _, _, _, _)
BraceScan(code, i, depth, in_str, esc) ==
    IF i >= Len(code) THEN -1
    ELSE LET ch == At(code, i)
         IN  IF in_str # None
             THEN IF esc THEN BraceScan(code, i + 1, depth, in_str, FALSE)
                  ELSE IF ch = BS
                  THEN BraceScan(code, i + 1, depth, in_str, TRUE)
                  ELSE IF ch = in_str
                  THEN BraceScan(code, i + 1, depth, None, esc)
                  ELSE BraceScan(code, i + 1, depth, in_str, esc)
             ELSE IF ch \in Quotes
                  THEN BraceScan(code, i + 1, depth, ch, esc)
                  ELSE IF ch = LB
                  THEN BraceScan(code, i + 1, depth + 1, in_str, esc)
                  ELSE IF ch = RB
                  THEN IF depth - 1 = 0 THEN i
                       ELSE BraceScan(code, i + 1, depth - 1, in_str, esc)
                  ELSE BraceScan(code, i + 1, depth, in_str, esc)

\* The mutant of _brace_span: no quoted regions.
BraceSpanNoQuotes(code, start_brace_idx) ==
    BraceScanNoQuotes(code, start_brace_idx, 0)

\* _brace_span(code, start_brace_idx), lines 130-133 and the loop.
BraceSpan(code, start_brace_idx) ==
    BraceScan(code, start_brace_idx, 0, None, FALSE)

\* The characters of the texts given to the span locator.
BraceChars == {SQ, DQ, BT, BS, LB, RB, OtherChar}

\* What may stand before the opening brace the scan starts at.
BracePrefixes == {<<>>, <<RB>>, <<SQ>>}

\* Bound: the number of characters after the opening brace.
MaxRest == 5

SeqsUpTo(S, k) == UNION {[1..j -> S] : j \in 0..k}

InitBrace ==
    /\ \E pre \in BracePrefixes : \E rest \in SeqsUpTo(BraceChars, MaxRest) :
         /\ b_code = pre \o <<LB>> \o rest
         /\ b_start = Len(pre)
    /\ b_ret = 0
    /\ b_pc = "call"

\* end_idx = _brace_span(code, brace_idx)
CallBraceSpan ==
    /\ b_pc = "call"
    /\ b_ret' = BraceSpan(b_code, b_start)
    /\ b_pc' = "returned"
    /\ UNCHANGED <<b_code, b_start>>

-----------------------------------------------------------------------------
(* The inputs of build_groups and the grouping specification                *)

\* Lists of distinct names, at most k long.
DistinctSeqs(k) ==
    {s \in UNION {[1..j -> NameU] : j \in 0..k} :
        \A i, j \in 1..Len(s) : i # j => s[i] # s[j]}

\* The dict with key set K whose values are given by the pair set E.
EdgeMap(K, E) == [a \in K |-> {p[2] : p \in {q \in E : q[1] = a}}]

InitGroups ==
    /\ names \in DistinctSeqs(MaxNames)
    /\ \E E \in SUBSET (SeqToSet(names) \X NameU) :
         /\ Cardinality(E) <= MaxEdges
         /\ \E K \in {SeqToSet(names), {p[1] : p \in E}} :
              edges = EdgeMap(K, E)
    /\ groups = <<>>
    /\ groups0 = <<>>
    /\ called = FALSE
    /\ visited = <<>>
    /\ last = "init"

\* A call of build_groups on the current inputs.
CallBuildGroups ==
    /\ ~called
    /\ groups' = build_groups(names, edges)
    /\ groups0' = groups'
    /\ visited' = BuildGroupsRun(names, edges).order
    /\ called' = TRUE
    /\ last' = "call"
    /\ UNCHANGED <<names, edges>>

\* The same call after one call edge a -> b has been turned into b -> a.
ReverseEdge ==
    /\ called
    /\ \E a \in DOMAIN edges : \E b \in edges[a] \cap SeqToSet(names) :
         /\ b # a
         /\ LET K  == DOMAIN edges \cup {b}
                E  == (EdgePairs(edges) \ {<<a, b>>}) \cup {<<b, a>>}
            IN  edges' = EdgeMap(K, E)
         /\ groups' = build_groups(names, edges')
         /\ visited' = BuildGroupsRun(names, edges').order
    /\ last' = "reverse"
    /\ UNCHANGED <<names, groups0, called>>

\* The same call after two adjacent names of the list have been exchanged.
SwapNames ==
    /\ called
    /\ \E i \in 1..(Len(names) - 1) :
         /\ names' = [names EXCEPT ![i] = names[i + 1], ![i + 1] = names[i]]
         /\ groups' = build_groups(names', edges)
         /\ visited' = BuildGroupsRun(names', edges).order
    /\ last' = "swap"
    /\ UNCHANGED <<edges, groups0, called>>

\* The span locator is not in use.
BraceIdle ==
    /\ b_code = <<>>
    /\ b_start = 0
    /\ b_ret = 0
    /\ b_pc = "idle"

\* The heuristic extractor is not in use.
JsIdle ==
    /\ j_items = <<>>
    /\ j_code = <<>>
    /\ j_pat = 0
    /\ j_pos = 0
    /\ j_seen = <<>>
    /\ j_edges = <<>>
    /\ j_callers = <<>>
    /\ j_groups = <<>>
    /\ j_pc = "idle"

\* analyze_file is not in use.
FileIdle ==
    /\ a_file = <<>>
    /\ a_max = 0
    /\ a_dry = FALSE
    /\ a_funcs = <<>>
    /\ a_edges = <<>>
    /\ a_callers = <<>>
    /\ a_groups = <<>>
    /\ a_idx = 0
    /\ a_prompts = <<>>
    /\ a_written = <<>>
    /\ a_generated = <<>>
    /\ a_pc = "idle"

\* main is not in use.
RunIdle ==
    /\ r_files = <<>>
    /\ r_workers = 0
    /\ r_task = <<>>
    /\ r_count = <<>>
    /\ r_idx = <<>>
    /\ r_disk = <<>>
    /\ r_wrote = {}
    /\ r_seen = {}
    /\ r_all = <<>>
    /\ r_pc = "idle"

\* call_openai is not in use.
OpenaiIdle ==
    /\ o_retries = 0
    /\ o_i = 0
    /\ o_last_err = None
    /\ o_log = <<>>
    /\ o_slept = <<>>
    /\ o_result = None
    /\ o_pc = "idle"

Init == InitGroups /\ BraceIdle /\ JsIdle /\ FileIdle /\ RunIdle /\ OpenaiIdle

Next ==
    \/ CallBuildGroups /\ UNCHANGED <<bvars, jvars, avars, rvars, ovars>>
    \/ ReverseEdge /\ UNCHANGED <<bvars, jvars, avars, rvars, ovars>>
    \/ SwapNames /\ UNCHANGED <<bvars, jvars, avars, rvars, ovars>>

Spec == Init /\ [][Next]_vars

\* The build_groups variables while another component is examined.
GroupsIdle ==
    /\ names = <<>>
    /\ edges = <<>>
    /\ groups = <<>>
    /\ groups0 = <<>>
    /\ called = FALSE
    /\ visited = <<>>
    /\ last = "idle"

InitB ==
    InitBrace /\ GroupsIdle /\ JsIdle /\ FileIdle /\ RunIdle /\ OpenaiIdle

NextB == CallBraceSpan /\ UNCHANGED <<gvars, jvars, avars, rvars, ovars>>

SpecBrace == InitB /\ [][NextB]_vars

-----------------------------------------------------------------------------
(* Claims about build_groups                                                *)

NameSet == SeqToSet(names)

GroupIdx == 1..Len(groups)

\* C1: the groups returned by build_groups are a partition of the names:
\* every group is non-empty, two groups at different places of the list are
\* disjoint, and the union of the groups is the set of the names.
C1_Partition ==
    called =>
        /\ \A i \in GroupIdx : groups[i] # {}
        /\ \A i, j \in GroupIdx : i # j => groups[i] \cap groups[j] = {}
        /\ UNION {groups[i] : i \in GroupIdx} = NameSet

\* A call that returned several groups, one of them with several members,
\* on a list in which the later names were reached from an earlier one.
C1_Witness ==
    /\ called
    /\ Len(groups) >= 2
    /\ \E i \in GroupIdx : Cardinality(groups[i]) >= 2
    /\ names[1] \in groups[1] /\ names[Len(names)] \in groups[1]

\* The undirected projection of the call edges on the names, self-calls left out.
Linked(a, b) ==
    /\ a # b
    /\ a \in NameSet /\ b \in NameSet
    /\ \/ a \in DOMAIN edges /\ b \in edges[a]
       \/ b \in DOMAIN edges /\ a \in edges[b]

\* The names joined to the names of S by a path of links.
RECURSIVE ReachFrom(_)
ReachFrom(S) ==
    LET T == S \cup {b \in NameSet : \E a \in S : Linked(a, b)}
    IN  IF T = S THEN S ELSE ReachFrom(T)

SameGroup(a, b) == \E i \in GroupIdx : a \in groups[i] /\ b \in groups[i]

\* C2: two names are in the same group if and only if a path of call edges,
\* taken in either direction and self-calls ignored, joins them; so a name
\* with no link is alone in its group.
C2_Components ==
    called =>
        /\ \A a, b \in NameSet : SameGroup(a, b) <=> b \in ReachFrom({a})
        /\ \A a \in NameSet : (\A b \in NameSet : ~Linked(a, b)) =>
               \E i \in GroupIdx : groups[i] = {a}

\* Two names put in one group that no edge joins directly, one of them
\* reached only against the direction of a call.
C2_Witness ==
    /\ called
    /\ \E a, b, c \in NameSet :
         /\ SameGroup(a, c) /\ ~Linked(a, c)
         /\ {a, c} \subseteq DOMAIN edges
         /\ b \in edges[a] /\ b \in edges[c]
         /\ StrLess(c, a) /\ names[1] = b

MinName(g) == CHOOSE x \in g : \A y \in g : x = y \/ StrLess(x, y)

\* C3: the returned list is in descending size order, and groups of equal
\* size are in ascending order of their smallest member.
C3_Order ==
    called =>
        \A i \in GroupIdx : i < Len(groups) =>
            \/ Cardinality(groups[i]) > Cardinality(groups[i + 1])
            \/ /\ Cardinality(groups[i]) = Cardinality(groups[i + 1])
               /\ StrLess(MinName(groups[i]), MinName(groups[i + 1]))

\* A returned list of groups of equal size whose first group was not the
\* first one found: the sort moved it.
C3_Witness ==
    /\ called
    /\ Len(groups) >= 2
    /\ Cardinality(groups[1]) = Cardinality(groups[2])
    /\ names[1] \notin groups[1]

\* C4: the returned list depends only on the set of the names and on the
\* undirected projection of the edges: after any reversals of call edges and
\* any exchanges in the list of names, build_groups returns the list it
\* returned at first.
C4_OrderAndDirectionFree == called => groups = groups0

\* A chain of three names in one group, returned again after a call edge
\* was reversed so that both edges now point at the middle name.
C4_Witness ==
    /\ called
    /\ last = "reverse"
    /\ Len(groups) = 1 /\ Cardinality(groups[1]) = 3
    /\ \E a, b, c \in NameSet :
         /\ Cardinality({a, b, c}) = 3
         /\ {a, c} \subseteq DOMAIN edges
         /\ b \in edges[a] /\ b \in edges[c] /\ ~Linked(a, c)

-----------------------------------------------------------------------------
(* Claims about _brace_span                                                 *)

\* The number of backslashes that stand right before position q, after the
\* quote character at p.
RECURSIVE BackslashRun(_, _, _)
BackslashRun(code, p, q) ==
    IF q - 1 > p /\ At(code, q - 1) = BS
    THEN 1 + BackslashRun(code, p, q - 1)
    ELSE 0

\* The region opened by the quote character at p ends at its next unescaped
\* occurrence, or runs to the end of the text.
RegionEnd(code, p) ==
    LET ends == {q \in (p + 1)..(Len(code) - 1) :
                    /\ At(code, q) = At(code, p)
                    /\ BackslashRun(code, p, q) % 2 = 0}
    IN  IF ends = {} THEN Len(code) - 1
        ELSE CHOOSE q \in ends : \A r \in ends : q <= r

\* The positions from s on that lie in a quoted region, delimiters included.
RECURSIVE QuotedFrom(_, _)
QuotedFrom(code, s) ==
    LET opens == {p \in s..(Len(code) - 1) : At(code, p) \in Quotes}
    IN  IF opens = {} THEN {}
        ELSE LET p == CHOOSE x \in opens : \A y \in opens : x <= y
                 e == RegionEnd(code, p)
             IN  (p..e) \cup QuotedFrom(code, e + 1)

\* The nesting depth after position i, counted from s outside the regions Q.
DepthAfter(code, s, Q, i) ==
    Cardinality({j \in s..i : j \notin Q /\ At(code, j) = LB}) -
    Cardinality({j \in s..i : j \notin Q /\ At(code, j) = RB})

\* The first closing brace outside the quoted regions after which the depth
\* counted from s is zero; -1 when there is none.
MatchingClose(code, s) ==
    LET Q == QuotedFrom(code, s)
        closes == {i \in s..(Len(code) - 1) :
                      /\ i \notin Q
                      /\ At(code, i) = RB
                      /\ DepthAfter(code, s, Q, i) = 0}
    IN  IF closes = {} THEN -1
        ELSE CHOOSE i \in closes : \A j \in closes : i <= j

\* C5: started at an opening brace, _brace_span returns the index of the
\* closing brace that brings the depth back to zero, where only braces
\* outside quoted regions count, a quoted region runs from a single quote,
\* a double quote or a backtick to the next unescaped occurrence of the same character, and a backslash in a
\* region escapes the character after it.
C5_BraceSpan ==
    b_pc = "returned" => b_ret = MatchingClose(b_code, b_start)

\* A returned closing brace behind a quoted region that holds an escaped
\* quote character and that hid a brace from the count.
C5_Witness ==
    /\ b_pc = "returned"
    /\ b_start = 1
    /\ Len(b_code) = 7
    /\ b_ret = 6
    /\ At(b_code, 2) \in Quotes
    /\ At(b_code, 3) = BS
    /\ At(b_code, 4) = At(b_code, 2)
    /\ At(b_code, 5) = At(b_code, 2)

-----------------------------------------------------------------------------
(* The heuristic extractor: JS_FUNC_PATTERNS, JS_CALL_RE and                *)
(* parse_js_functions, lines 106-193                                        *)
(*                                                                          *)
(* A JS/TS text is the sequence of its lexemes (a word, a punctuator, a     *)
(* quote character), written with white space between two lexemes wherever  *)
(* the language needs it; \s* and \s+ of the patterns match that white       *)
(* space, \b holds at the start of every word.  The patterns, str.find and  *)
(* _brace_span are followed lexeme by lexeme (white space changes none of    *)
(* them); the offsets stored in a JsFunction are Python's character offsets  *)
(* in the text written with one blank after each lexeme, CharPos(code, i)    *)
(* being the offset of lexeme i.  There are no line breaks in a text, so     *)
(* start_line and end_line of a JsFunction are left out.                     *)

\* The lexemes that match [A-Za-z0-9_]+ ; all of them match the stricter
\* [A-Za-z_][A-Za-z0-9_]* of JS_CALL_RE as well.
Words == {"function", "const", "let", "var", "f", "g", "if", "catch", "try",
          "a", "e", "s"}

\* The number of characters of a lexeme.
Width(t) ==
    CASE t = "function"                   -> 8
      [] t \in {"const", "catch"}         -> 5
      [] t \in {"let", "var", "try"}      -> 3
      [] t \in {"if", "=>"}               -> 2
      [] OTHER                            -> 1

\* The character offset of lexeme i (0-based) of the text.
RECURSIVE CharPos(_, _)
CharPos(code, i) ==
    IF i <= 0 THEN 0 ELSE CharPos(code, i - 1) + Width(At(code, i - 1)) + 1

\* Past the end of the text there is no lexeme.
TokAt(code, i) == IF i >= 0 /\ i < Len(code) THEN At(code, i) ELSE "EOT"

\* Line 108: \bfunction\s+([A-Za-z0-9_]+)\s*\(   -- m.end() of a match that
\* starts at i, or -1.
MatchDecl(code, i) ==
    IF /\ TokAt(code, i) = "function"
       /\ TokAt(code, i + 1) \in Words
       /\ TokAt(code, i + 2) = "("
    THEN i + 3 ELSE -1

\* Line 110: \b(?:const|let|var)\s+([A-Za-z0-9_]+)\s*=\s*\([^\)]*\)\s*=>\s*{
\* [^\)]* runs to the first closing parenthesis.
MatchArrow(code, i) ==
    IF /\ TokAt(code, i) \in {"const", "let", "var"}
       /\ TokAt(code, i + 1) \in Words
       /\ TokAt(code, i + 2) = "="
       /\ TokAt(code, i + 3) = "("
    THEN LET c == Find(code, ")", i + 4)
         IN  IF c # -1 /\ TokAt(code, c + 1) = "=>" /\ TokAt(code, c + 2) = LB
             THEN c + 3 ELSE -1
    ELSE -1

\* Line 111: \b(?:const|let|var)\s+([A-Za-z0-9_]+)\s*=\s*function\s*\(
MatchExpr(code, i) ==
    IF /\ TokAt(code, i) \in {"const", "let", "var"}
       /\ TokAt(code, i + 1) \in Words
       /\ TokAt(code, i + 2) = "="
       /\ TokAt(code, i + 3) = "function"
       /\ TokAt(code, i + 4) = "("
    THEN i + 5 ELSE -1

\* Line 113: \b([A-Za-z0-9_]+)\s*\([^)]*\)\s*{
MatchMethodHint(code, i) ==
    IF TokAt(code, i) \in Words /\ TokAt(code, i + 1) = "("
    THEN LET c == Find(code, ")", i + 2)
         IN  IF c # -1 /\ TokAt(code, c + 1) = LB THEN c + 2 ELSE -1
    ELSE -1

\* Lines 106-114: the list JS_FUNC_PATTERNS, in its order.
JS_FUNC_PATTERNS == <<"decl", "arrow", "expr", "method_hint">>

\* rx.match at position i for the k-th pattern: m.end(), or -1.
MatchAt(k, code, i) ==
    CASE JS_FUNC_PATTERNS[k] = "decl"        -> MatchDecl(code, i)
      [] JS_FUNC_PATTERNS[k] = "arrow"       -> MatchArrow(code, i)
      [] JS_FUNC_PATTERNS[k] = "expr"        -> MatchExpr(code, i)
      [] JS_FUNC_PATTERNS[k] = "method_hint" -> MatchMethodHint(code, i)

\* m.group(1) of the match of the k-th pattern that starts at i.
MatchName(k, code, i) ==
    IF JS_FUNC_PATTERNS[k] = "method_hint" THEN At(code, i)
    ELSE At(code, i + 1)

\* Line 161, rx.finditer: the start of the leftmost match at or after pos,
\* or -1; the search goes on from that match's end.
NextMatch(k, code, pos) ==
    LET starts == {i \in pos..(Len(code) - 1) : MatchAt(k, code, i) # -1}
    IN  IF starts = {} THEN -1
        ELSE CHOOSE i \in starts : \A j \in starts : i <= j

\* Line 187: the tokens that are not taken for callees.
CallDenylist == {"if", "for", "while", "switch", "return", "function"}

\* Lines 184-188: the callees JS_CALL_RE finds in the body text.
JsCalls(body) ==
    {At(body, i) : i \in {x \in 0..(Len(body) - 2) :
                            /\ At(body, x) \in Words
                            /\ At(body, x + 1) = "("}} \ CallDenylist

\* Lines 172-189: the JsFunction of the candidate whose match starts at
\* lexeme m_start, whose brace is lexeme brace_idx and whose closing brace is
\* lexeme end_idx.  brace_idx is not a field of JsFunction: it is kept to
\* tell which brace the span locator was given.
MakeJsFunction(code, name, m_start, brace_idx, end_idx) ==
    [name      |-> name,
     start_idx |-> CharPos(code, m_start),
     end_idx   |-> CharPos(code, end_idx) + 1,
     src       |-> Slice(code, m_start, end_idx + 1),
     calls     |-> JsCalls(Slice(code, brace_idx, end_idx + 1)),
     brace_idx |-> CharPos(code, brace_idx)]

\* dict assignment seen[name] = jf.
DictPut(d, k, v) == [x \in DOMAIN d \cup {k} |-> IF x = k THEN v ELSE d[x]]

\* Lines 190-192, the mutant: a candidate of equal length replaces too.
KeepEqualToo(seen, jf) ==
    IF \/ jf.name \notin DOMAIN seen
       \/ (seen[jf.name].end_idx - seen[jf.name].start_idx)
              <= (jf.end_idx - jf.start_idx)
    THEN DictPut(seen, jf.name, jf)
    ELSE seen

\* Lines 190-192: avoid overwriting same name with a shorter span.
Keep(seen, jf) ==
    IF \/ jf.name \notin DOMAIN seen
       \/ (seen[jf.name].end_idx - seen[jf.name].start_idx)
              < (jf.end_idx - jf.start_idx)
    THEN DictPut(seen, jf.name, jf)
    ELSE seen

\* Lines 162-192, the mutant: the test of line 170 on end_idx is missing.
CandidateNoCloseTest(seen, k, code, m_start) ==
    LET name      == MatchName(k, code, m_start)
        brace_idx == Find(code, LB, MatchAt(k, code, m_start))
    IN  IF brace_idx = -1 THEN seen
        ELSE Keep(seen, MakeJsFunction(code, name, m_start, brace_idx,
                                       BraceSpan(code, brace_idx)))

\* Lines 162-192: the body of the inner loop for the match at m_start.
Candidate(seen, k, code, m_start) ==
    LET name      == MatchName(k, code, m_start)
        brace_idx == Find(code, LB, MatchAt(k, code, m_start))
    IN  IF brace_idx = -1 THEN seen
        ELSE LET end_idx == BraceSpan(code, brace_idx)
             IN  IF end_idx = -1 THEN seen
                 ELSE Keep(seen, MakeJsFunction(code, name, m_start,
                                                brace_idx, end_idx))

-----------------------------------------------------------------------------
(* The JS/TS source files of the model, and the extractor's specification   *)

FuncNames == {"f", "g"}

Kinds == {"decl", "arrow", "expr", "method"}

\* The top-level items a source file is written from: a function f or g in
\* each of the four forms, calling the other one; the declaration of f with
\* an empty body, with a string that holds a closing brace, with a string
\* that is never closed, and with a nested if block; the declaration of g
\* with a try/catch; and an if statement that calls f.
Items ==
    [kind : Kinds, name : FuncNames, body : {"call"}] \cup
    [kind : {"decl"}, name : {"f"}, body : {"empty", "str", "quote", "if"}] \cup
    {[kind |-> "decl", name |-> "g", body |-> "catch"],
     [kind |-> "method", name |-> "if", body |-> "call"]}

\* Bound: the number of top-level items of a source file.
MaxItems == 2

Header(it) ==
    CASE it.kind = "decl"   -> <<"function", it.name, "(", ")">>
      [] it.kind = "arrow"  -> <<"const", it.name, "=", "(", ")", "=>">>
      [] it.kind = "expr"   -> <<"const", it.name, "=", "function", "(", ")">>
      [] it.kind = "method" -> <<it.name, "(", "a", ")">>

BodyText(it) ==
    CASE it.body = "call"  -> <<(IF it.name = "f" THEN "g" ELSE "f"), "(", ")">>
      [] it.body = "empty" -> <<>>
      [] it.body = "str"   -> <<"s", "=", SQ, RB, SQ>>
      [] it.body = "quote" -> <<"s", "=", SQ>>
      [] it.body = "if"    -> <<"if", "(", "a", ")", LB, "g", "(", ")", RB>>
      [] it.body = "catch" -> <<"try", LB, RB, "catch", "(", "e", ")", LB, RB>>

\* The text of one item: header, opening brace, body, closing brace.
ItemText(it) == Header(it) \o <<LB>> \o BodyText(it) \o <<RB>>

RECURSIVE FileText(_)
FileText(its) ==
    IF its = <<>> THEN <<>> ELSE ItemText(its[1]) \o FileText(Tail(its))

InitJs ==
    /\ j_items \in SeqsUpTo(Items, MaxItems)
    /\ j_code = FileText(j_items)
    /\ j_pat = 1
    /\ j_pos = 0
    /\ j_seen = <<>>
    /\ j_edges = <<>>
    /\ j_callers = <<>>
    /\ j_groups = <<>>
    /\ j_pc = "parse"

\* Lines 161-192: one turn of the inner loop, on the next match of the
\* current pattern.
JsCandidate ==
    /\ j_pc = "parse"
    /\ LET m_start == NextMatch(j_pat, j_code, j_pos)
       IN  /\ m_start # -1
           /\ j_seen' = Candidate(j_seen, j_pat, j_code, m_start)
           /\ j_pos' = MatchAt(j_pat, j_code, m_start)
    /\ UNCHANGED <<j_items, j_code, j_pat, j_edges, j_callers, j_groups, j_pc>>

\* Line 160: the matches of the current pattern are used up, the next
\* pattern is taken.
JsNextPattern ==
    /\ j_pc = "parse"
    /\ NextMatch(j_pat, j_code, j_pos) = -1
    /\ j_pat < Len(JS_FUNC_PATTERNS)
    /\ j_pat' = j_pat + 1
    /\ j_pos' = 0
    /\ UNCHANGED <<j_items, j_code, j_seen, j_edges, j_callers, j_groups, j_pc>>

\* Line 193: return seen.
JsReturn ==
    /\ j_pc = "parse"
    /\ NextMatch(j_pat, j_code, j_pos) = -1
    /\ j_pat = Len(JS_FUNC_PATTERNS)
    /\ j_pc' = "parsed"
    /\ UNCHANGED <<j_items, j_code, j_pat, j_pos, j_seen, j_edges, j_callers,
                   j_groups>>

\* analyze_file, lines 413-415: no function was found.
JsNoFunctions ==
    /\ j_pc = "parsed"
    /\ DOMAIN j_seen = {}
    /\ j_pc' = "empty"
    /\ UNCHANGED <<j_items, j_code, j_pat, j_pos, j_seen, j_edges, j_callers,
                   j_groups>>

\* Lines 366-370 and 416-420, the mutant: the test `if c in funcs` is
\* missing, every raw callee becomes an edge.
ResolvedEdgesUnfiltered(jmap) == [n \in DOMAIN jmap |-> jmap[n].calls]

\* analyze_file, lines 366-370 and 416-420: the callees that are functions
\* of the file.
ResolvedEdges(jmap) == [n \in DOMAIN jmap |-> jmap[n].calls \cap DOMAIN jmap]

\* analyze_file, lines 374-377 and 422-425: the reverse map.
CallersOf(es) == [b \in DOMAIN es |-> {a \in DOMAIN es : b \in es[a]}]

\* analyze_file, lines 413-425: names, edges, groups and callers.
JsGraph ==
    /\ j_pc = "parsed"
    /\ DOMAIN j_seen # {}
    /\ j_edges' = ResolvedEdges(j_seen)
    /\ j_groups' = build_groups(sorted(DOMAIN j_seen), j_edges')
    /\ j_callers' = CallersOf(j_edges')
    /\ j_pc' = "graph"
    /\ UNCHANGED <<j_items, j_code, j_pat, j_pos, j_seen>>

InitJ ==
    InitJs /\ GroupsIdle /\ BraceIdle /\ FileIdle /\ RunIdle /\ OpenaiIdle

NextJ ==
    \/ JsCandidate /\ UNCHANGED <<gvars, bvars, avars, rvars, ovars>>
    \/ JsNextPattern /\ UNCHANGED <<gvars, bvars, avars, rvars, ovars>>
    \/ JsReturn /\ UNCHANGED <<gvars, bvars, avars, rvars, ovars>>
    \/ JsNoFunctions /\ UNCHANGED <<gvars, bvars, avars, rvars, ovars>>
    \/ JsGraph /\ UNCHANGED <<gvars, bvars, avars, rvars, ovars>>

SpecJs == InitJ /\ [][NextJ]_vars

-----------------------------------------------------------------------------
(* Claims about parse_js_functions and the JS/TS call graph                 *)

\* parse_js_functions has returned.
JsParsed == j_pc \in {"parsed", "graph", "empty"}

\* The starts of the matches rx.finditer yields for the k-th pattern.
RECURSIVE MatchesFrom(_, _, _)
MatchesFrom(k, code, pos) ==
    LET i == NextMatch(k, code, pos)
    IN  IF i = -1 THEN <<>>
        ELSE <<i>> \o MatchesFrom(k, code, MatchAt(k, code, i))

\* A candidate: a match, the brace found after it and the closing brace that
\* matches this brace (lexeme indices, -1 when there is none).
CandidateAt(k, code, i) ==
    LET b == Find(code, LB, MatchAt(k, code, i))
    IN  [pat   |-> k,
         name  |-> MatchName(k, code, i),
         start |-> i,
         brace |-> b,
         close |-> IF b = -1 THEN -1 ELSE MatchingClose(code, b)]

CandidatesOf(k, code) ==
    LET ms == MatchesFrom(k, code, 0)
    IN  [x \in 1..Len(ms) |-> CandidateAt(k, code, ms[x])]

\* All candidates, in pattern priority and then text position order.
AllCandidates(code) ==
    CandidatesOf(1, code) \o CandidatesOf(2, code) \o
    CandidatesOf(3, code) \o CandidatesOf(4, code)

Found(c) == c.brace # -1 /\ c.close # -1

\* The span length of a candidate, in characters.
CandLen(code, c) == CharPos(code, c.close) + 1 - CharPos(code, c.start)

\* The record r is the one made from the candidate c.
MadeFrom(code, r, c) ==
    /\ r.name = c.name
    /\ r.start_idx = CharPos(code, c.start)
    /\ r.end_idx = CharPos(code, c.close) + 1
    /\ r.brace_idx = CharPos(code, c.brace)

\* C6: a candidate whose brace is never closed is skipped and nothing else:
\* every candidate with a matched closing brace has its name recorded, with
\* a span at least as long as its own, and every record is made from a
\* candidate with a matched closing brace.
C6_SkipOnlyUnclosed ==
    JsParsed =>
        LET cs == AllCandidates(j_code)
        IN  /\ \A i \in 1..Len(cs) : Found(cs[i]) =>
                  /\ cs[i].name \in DOMAIN j_seen
                  /\ j_seen[cs[i].name].end_idx - j_seen[cs[i].name].start_idx
                         >= CandLen(j_code, cs[i])
            /\ \A n \in DOMAIN j_seen :
                  \E i \in 1..Len(cs) :
                      Found(cs[i]) /\ MadeFrom(j_code, j_seen[n], cs[i])

\* A text in which a candidate's brace is never closed (an unterminated
\* quote swallows the rest), and a candidate met after it is recorded.
C6_Witness ==
    /\ JsParsed
    /\ LET cs == AllCandidates(j_code)
       IN  \E i, k \in 1..Len(cs) :
               /\ i < k
               /\ cs[i].brace # -1 /\ cs[i].close = -1
               /\ Found(cs[k])
               /\ MadeFrom(j_code, j_seen[cs[k].name], cs[k])

\* The functions written in the source file: where the header of each one
\* starts, its own opening brace and its closing brace (character offsets).
TrueFunctions(its) ==
    {LET off == Len(FileText(SubSeq(its, 1, x - 1)))
         code == FileText(its)
     IN  [name  |-> its[x].name,
          start |-> CharPos(code, off),
          open  |-> CharPos(code, off + Len(Header(its[x]))),
          close |-> CharPos(code, off + Len(ItemText(its[x])) - 1)] :
     x \in {y \in 1..Len(its) : its[y].name \in FuncNames}}

\* Every item of the file has its braces and quotes closed.
WellFormed(its) == \A x \in 1..Len(its) : its[x].body # "quote"

\* C7: for every function recorded, the brace handed to the span locator is
\* the opening brace of that function's own body, and the recorded span runs
\* from the match start, in the function's header, to the function's own
\* closing brace.
C7_OwnBodyBrace ==
    (JsParsed /\ WellFormed(j_items)) =>
        \A n \in DOMAIN j_seen \cap FuncNames :
            \E t \in TrueFunctions(j_items) :
                /\ t.name = n
                /\ t.start <= j_seen[n].start_idx
                /\ j_seen[n].start_idx < t.open
                /\ j_seen[n].brace_idx = t.open
                /\ j_seen[n].end_idx = t.close + 1

\* The control-flow keywords of the language that can stand before a
\* parenthesis.
ControlKeywords == {"if", "for", "while", "switch", "catch"}

\* C8: parse_js_functions returns no record whose name is a control-flow
\* keyword.
C8_NoKeywordRecord ==
    JsParsed => DOMAIN j_seen \cap ControlKeywords = {}

\* C9: no call edge of the resolved JS/TS call graph has a control-flow
\* keyword as its caller or as its callee.
C9_NoKeywordEdge ==
    j_pc = "graph" =>
        \A a \in DOMAIN j_edges : \A b \in j_edges[a] :
            a \notin ControlKeywords /\ b \notin ControlKeywords

\* The candidates of name n with a matched closing brace, as places in cs.
FoundOf(cs, n) == {i \in 1..Len(cs) : Found(cs[i]) /\ cs[i].name = n}

\* The first, in pattern priority and then text position order, of the
\* longest candidates of name n.
FirstLongest(code, cs, n) ==
    LET longest == {i \in FoundOf(cs, n) : \A j \in FoundOf(cs, n) :
                        CandLen(code, cs[j]) <= CandLen(code, cs[i])}
    IN  CHOOSE i \in longest : \A j \in longest : i <= j

\* C10: the record returned for a name is made from a candidate of maximal
\* span length among the candidates of that name whose closing brace was
\* found, and among equally long ones from the first in pattern priority
\* and then text position order.
C10_LongestFirstKept ==
    JsParsed =>
        LET cs == AllCandidates(j_code)
        IN  \A n \in DOMAIN j_seen :
                MadeFrom(j_code, j_seen[n], cs[FirstLongest(j_code, cs, n)])

\* A name with two equally long candidates, no candidate of that name being
\* longer: the record is made from the first of the two, the later one did
\* not replace it.
C10_Witness ==
    /\ JsParsed
    /\ LET cs == AllCandidates(j_code)
       IN  \E n \in DOMAIN j_seen : \E i, j \in FoundOf(cs, n) :
               /\ i < j
               /\ CandLen(j_code, cs[i]) = CandLen(j_code, cs[j])
               /\ cs[i].start # cs[j].start
               /\ MadeFrom(j_code, j_seen[n], cs[i])

-----------------------------------------------------------------------------
(* Claims about the traversal order of build_groups                         *)

\* The place of a marked name in the marking order.
OrderPos(n) == CHOOSE i \in 1..Len(visited) : visited[i] = n

\* The names linked to n in the graph of lines 198-203.
Neighbours(n) == {m \in NameSet : Linked(n, m)}

\* The i-th marked name begins the traversal of a component: no name of its
\* component was marked before it.
BeginsComponent(i) ==
    \A j \in 1..(i - 1) : visited[j] \notin ReachFrom({visited[i]})

\* A traversal begins at the smallest of the names not marked so far.
StartsAtSmallest ==
    \A i \in 1..Len(visited) : BeginsComponent(i) =>
        \A j \in i..Len(visited) : j = i \/ StrLess(visited[i], visited[j])

\* The neighbours of a name that are not marked when it is marked are marked
\* in ascending order of their names.
NeighboursAscending ==
    \A u \in NameSet :
        \A x, y \in {m \in Neighbours(u) : OrderPos(m) > OrderPos(u)} :
            StrLess(x, y) => OrderPos(x) < OrderPos(y)

\* C17: on the sorted list of names analyze_file passes, every traversal of
\* a component begins at the smallest name not visited so far, and the
\* neighbours of a visited name that are not yet visited are visited in
\* ascending order of their names.
C17_TraversalOrder ==
    (called /\ names = sorted(NameSet)) =>
        /\ SeqToSet(visited) = NameSet
        /\ StartsAtSmallest
        /\ NeighboursAscending

-----------------------------------------------------------------------------
(* The grammar-aware extractor: parse_python_functions, lines 58-103        *)
(*                                                                          *)
(* A Python source file of the model is the list of its function           *)
(* definitions in source order.  A definition has a name, a body of one     *)
(* statement (a call, or pass) and a depth: a definition of depth 1 is      *)
(* nested in the nearest definition of depth 0 before it, after that        *)
(* definition's own statement.  A definition takes two lines of the text,   *)
(* its header and its statement, and the lines of the definitions nested    *)
(* in it follow.  A file that is marked broken ends with a line that is     *)
(* not Python.                                                              *)

\* The body of a definition that calls nothing: pass.
NoCall == [kind |-> "pass", id |-> ""]

\* The call statements of the model:  f()  g()  x.g()  x.d()  f[0]()
\* kind is the class of the node Call.func, id the name it carries.
PyCallExprs ==
    {[kind |-> "Name", id |-> "f"], [kind |-> "Name", id |-> "g"],
     [kind |-> "Attribute", id |-> "g"], [kind |-> "Attribute", id |-> "d"],
     [kind |-> "Subscript", id |-> "f"]}

PyDefs == [name : FuncNames, call : PyCallExprs \cup {NoCall}, depth : {0, 1}]

\* Bound: the number of function definitions of a Python source file.
MaxDefs == 2

\* The lists of definitions that are files: the first one is not nested.
PyFiles ==
    {ds \in SeqsUpTo(PyDefs, MaxDefs) : ds # <<>> => ds[1].depth = 0}

\* The definitions among i..Len(defs) that are nested in definition i, and i.
RECURSIVE NestedRun(_, _)
NestedRun(defs, j) ==
    IF j <= Len(defs) /\ defs[j].depth = 1
    THEN {j} \cup NestedRun(defs, j + 1)
    ELSE {}

\* The function definitions of the subtree of definition i.
Subtree(defs, i) ==
    IF defs[i].depth = 0 THEN {i} \cup NestedRun(defs, i + 1) ELSE {i}

SetMax(S) == CHOOSE x \in S : \A y \in S : y <= x

\* node.lineno and node.end_lineno of definition i (lines are 1-based).
Lineno(defs, i) == 2 * i - 1

EndLineno(defs, i) == 2 * SetMax(Subtree(defs, i))

\* The lines of the text: the header and the statement of each definition.
\* The statement of a definition is one level deeper than its header.
PyLine(defs, l) ==
    LET d == defs[(l + 1) \div 2]
    IN  IF l % 2 = 1
        THEN [indent |-> d.depth, kind |-> "def", id |-> d.name]
        ELSE [indent |-> d.depth + 1, kind |-> d.call.kind, id |-> d.call.id]

\* Lines 75-78, ast.get_source_segment(code, node): the lines of the node,
\* the first one taken from the column of its `def`.
SourceSegment(defs, i) ==
    [k \in 1..(EndLineno(defs, i) - Lineno(defs, i) + 1) |->
        LET line == PyLine(defs, Lineno(defs, i) + k - 1)
        IN  IF k = 1 THEN [line EXCEPT !.indent = 0] ELSE line]

\* The number of characters of a line without its indentation:
\*   def f():   pass   f()   x.g()   f[0]()
PyLineChars(line) ==
    CASE line.kind = "def"       -> 8
      [] line.kind = "pass"      -> 4
      [] line.kind = "Name"      -> 3
      [] line.kind = "Attribute" -> 5
      [] line.kind = "Subscript" -> 6

\* len(src) of a source segment: four blanks for a level of indentation,
\* one line break between two lines.
RECURSIVE PySrcLen(_)
PySrcLen(src) ==
    IF src = <<>> THEN 0
    ELSE 4 * src[1].indent + PyLineChars(src[1])
         + (IF Len(src) > 1 THEN 1 ELSE 0) + PySrcLen(Tail(src))

\* ast.walk(tree), lines 67 and 95, restricted to the function definitions:
\* breadth first, so the definitions of depth 0 in source order, then the
\* nested ones in source order.
RECURSIVE IndicesAtDepth(_, _, _)
IndicesAtDepth(defs, i, depth) ==
    IF i > Len(defs) THEN <<>>
    ELSE (IF defs[i].depth = depth THEN <<i>> ELSE <<>>)
         \o IndicesAtDepth(defs, i + 1, depth)

WalkDefs(defs) == IndicesAtDepth(defs, 1, 0) \o IndicesAtDepth(defs, 1, 1)

\* Lines 66-78: the first loop; funcs[name] = PyFunction(...) replaces the
\* record an earlier definition of the name left.
RECURSIVE CollectFunctions(_, _, _)
CollectFunctions(funcs, defs, walk) ==
    IF walk = <<>> THEN funcs
    ELSE LET i == walk[1]
             r == [name  |-> defs[i].name,
                   start |-> Lineno(defs, i),
                   end   |-> EndLineno(defs, i),
                   src   |-> SourceSegment(defs, i),
                   calls |-> {}]
         IN  CollectFunctions(DictPut(funcs, defs[i].name, r), defs,
                              Tail(walk))

\* Lines 85-93, CallVisitor.visit_Call on one call: foo() adds foo,
\* obj.foo() adds foo, any other callee adds nothing.
VisitCall(call) ==
    IF call.kind \in {"Name", "Attribute"} THEN {call.id} ELSE {}

\* Lines 98-99, v.visit(node): the calls of the whole subtree of the node
\* (generic_visit goes down into nested definitions).
VisitorCalls(defs, i) ==
    UNION {VisitCall(defs[j].call) : j \in Subtree(defs, i)}

\* Lines 95-101: the second loop, again over every definition of the tree.
RECURSIVE CollectCalls(_, _, _)
CollectCalls(funcs, defs, walk) ==
    IF walk = <<>> THEN funcs
    ELSE LET cur == defs[walk[1]].name
             f2  == IF cur \in DOMAIN funcs
                    THEN [funcs EXCEPT ![cur].calls =
                              @ \cup VisitorCalls(defs, walk[1])]
                    ELSE funcs
         IN  CollectCalls(f2, defs, Tail(walk))

\* parse_python_functions(code): ast.parse fails on a broken file.
parse_python_functions(file) ==
    IF file.broken THEN <<>>
    ELSE CollectCalls(CollectFunctions(<<>>, file.defs, WalkDefs(file.defs)),
                      file.defs, WalkDefs(file.defs))

-----------------------------------------------------------------------------
(* analyze_file, lines 348-463, and make_group_prompt, lines 268-326        *)

\* parse_js_functions(code), lines 156-193, as one function: the loops the
\* actions JsCandidate, JsNextPattern and JsReturn go through step by step.
RECURSIVE JsScan(_, _, _, _)
JsScan(seen, k, code, pos) ==
    LET m_start == NextMatch(k, code, pos)
    IN  IF m_start # -1
        THEN JsScan(Candidate(seen, k, code, m_start), k, code,
                    MatchAt(k, code, m_start))
        ELSE IF k < Len(JS_FUNC_PATTERNS)
             THEN JsScan(seen, k + 1, code, 0)
             ELSE seen

parse_js_functions(code) == JsScan(<<>>, 1, code, 0)

\* The source files of the model.  stat is "ok", "large" (st_size is above
\* max_bytes) or "unreadable" (stat or read_bytes raises); a file has the
\* definitions of a Python file or the items of a JS/TS file.
PySourceFiles ==
    [ext : {".py"}, stat : {"ok"}, defs : PyFiles, broken : BOOLEAN,
     items : {<<>>}]

JsSourceFiles ==
    [ext : {".js"}, stat : {"ok"}, defs : {<<>>}, broken : {FALSE},
     items : SeqsUpTo(Items, MaxItems)]

UnreadFiles ==
    [ext : {".py", ".js"}, stat : {"large", "unreadable"}, defs : {<<>>},
     broken : {FALSE}, items : {<<>>}]

SourceFiles == PySourceFiles \cup JsSourceFiles \cup UnreadFiles

\* Lines 30-42, read_text(path, max_bytes) returns None: the file is too
\* large, or stat or read_bytes raises.  Otherwise it returns the text.
ReadTextNone(file) == file.stat \in {"large", "unreadable"}

\* Lines 354-355: language = "python" if ext == ".py" else "javascript"
Language(file) == IF file.ext = ".py" THEN "python" ELSE "javascript"

\* Lines 361 and 412: the function records of the file.
ParseFile(file) ==
    IF Language(file) = "python" THEN parse_python_functions(file)
    ELSE parse_js_functions(FileText(file.items))

\* len(src) of a function record.
SrcLen(file, rec) ==
    IF Language(file) = "python" THEN PySrcLen(rec.src)
    ELSE rec.end_idx - rec.start_idx

\* Lines 24 and 288: the values of --max-snippet-chars the model runs with:
\* one that the texts of the model exceed, and the default.
SnippetLimits == {40, 14000}

\* Line 288: the guard inside make_group_prompt.
PromptCap == 14000

\* sorted(group_funcs, key=lambda x: (-len(x[1]), x[0])), lines 284 and 436.
\* An entry of group_funcs is <<name, src, len(src)>>.
LenNameLess(x, y) ==
    \/ x[3] > y[3]
    \/ x[3] = y[3] /\ StrLess(x[1], y[1])

RECURSIVE InsertByLen(_, _)
InsertByLen(lst, x) ==
    IF lst = <<>> THEN <<x>>
    ELSE IF LenNameLess(x, lst[1]) THEN <<x>> \o lst
         ELSE <<lst[1]>> \o InsertByLen(Tail(lst), x)

RECURSIVE SortByLen(_, _)
SortByLen(lst, acc) ==
    IF lst = <<>> THEN acc
    ELSE SortByLen(Tail(lst), InsertByLen(acc, lst[1]))

\* Lines 286-291 and 434-441: the entries kept while the running total
\* stays within the limit, an entry that does not fit being passed over.
RECURSIVE TakeWithin(_, _, _)
TakeWithin(lst, total, limit) ==
    IF lst = <<>> THEN <<>>
    ELSE IF total + lst[1][3] > limit
         THEN TakeWithin(Tail(lst), total, limit)
         ELSE <<lst[1]>> \o TakeWithin(Tail(lst), total + lst[1][3], limit)

\* Lines 434-441: the list `trimmed` of the JS/TS path.
Trimmed(group_funcs, max_snippet_chars) ==
    TakeWithin(SortByLen(group_funcs, <<>>), 0, max_snippet_chars)

\* Python's d.get(k, []) as a set.
DictGet(d, k) == IF k \in DOMAIN d THEN d[k] ELSE {}

\* Lines 297-302: the relationship line of each entry of group_funcs.
RelLines(group_funcs, callers, callees) ==
    [i \in 1..Len(group_funcs) |->
        [name      |-> group_funcs[i][1],
         calls     |-> sorted(DictGet(callees, group_funcs[i][1])),
         called_by |-> sorted(DictGet(callers, group_funcs[i][1]))]]

\* make_group_prompt(..., group_funcs, callers, callees, ...): what it was
\* given, the relationship lines and the snippets of the prompt it returns.
make_group_prompt(group_funcs, callers, callees) ==
    [group_funcs |-> group_funcs,
     callers     |-> callers,
     callees     |-> callees,
     rel_lines   |-> RelLines(group_funcs, callers, callees),
     snippets    |-> TakeWithin(SortByLen(group_funcs, <<>>), 0, PromptCap)]

\* Lines 381 and 429: group_funcs = [(n, funcs[n].src) for n in sorted(g)]
GroupFuncs(file, funcs, g) ==
    LET ns == sorted(g)
    IN  [i \in 1..Len(ns) |->
            <<ns[i], funcs[ns[i]].src, SrcLen(file, funcs[ns[i]])>>]

\* Lines 384-385 and 430-431: sub_edges and sub_callers.
SubMap(m, g) == [n \in g |-> DictGet(m, n) \cap g]

\* Lines 381-386 and 429-443: the prompt of one group.  The Python path
\* hands over group_funcs, the JS/TS path hands over trimmed.
GroupPrompt(file, funcs, es, cs, g, max_snippet_chars) ==
    LET group_funcs == GroupFuncs(file, funcs, g)
    IN  make_group_prompt(
            IF Language(file) = "python" THEN group_funcs
            ELSE Trimmed(group_funcs, max_snippet_chars),
            SubMap(cs, g), SubMap(es, g))

-----------------------------------------------------------------------------
(* The specification of analyze_file on one source file                     *)

InitFile ==
    /\ a_file \in SourceFiles
    /\ a_max \in SnippetLimits
    /\ a_dry \in BOOLEAN
    /\ a_funcs = <<>>
    /\ a_edges = <<>>
    /\ a_callers = <<>>
    /\ a_groups = <<>>
    /\ a_idx = 0
    /\ a_prompts = <<>>
    /\ a_written = <<>>
    /\ a_generated = <<>>
    /\ a_pc = "start"

\* Lines 350-353: the file is too large or cannot be read; return [].
AnalyzeSkip ==
    /\ a_pc = "start"
    /\ ReadTextNone(a_file)
    /\ a_pc' = "returned"
    /\ UNCHANGED <<a_file, a_max, a_dry, a_funcs, a_edges, a_callers,
                   a_groups, a_idx, a_prompts, a_written, a_generated>>

\* Lines 350-361 and 412: the text is read and the functions are extracted.
AnalyzeParse ==
    /\ a_pc = "start"
    /\ ~ReadTextNone(a_file)
    /\ a_funcs' = ParseFile(a_file)
    /\ a_pc' = "parsed"
    /\ UNCHANGED <<a_file, a_max, a_dry, a_edges, a_callers, a_groups,
                   a_idx, a_prompts, a_written, a_generated>>

\* Lines 362-364 and 413-415: if not names: return []
AnalyzeEmpty ==
    /\ a_pc = "parsed"
    /\ DOMAIN a_funcs = {}
    /\ a_pc' = "returned"
    /\ UNCHANGED <<a_file, a_max, a_dry, a_funcs, a_edges, a_callers,
                   a_groups, a_idx, a_prompts, a_written, a_generated>>

\* Lines 362-379 and 413-428: names, edges, groups, callers; the output
\* directory of the file is made.
AnalyzeGraph ==
    /\ a_pc = "parsed"
    /\ DOMAIN a_funcs # {}
    /\ a_edges' = ResolvedEdges(a_funcs)
    /\ a_groups' = build_groups(sorted(DOMAIN a_funcs), a_edges')
    /\ a_callers' = CallersOf(a_edges')
    /\ a_idx' = 1
    /\ a_pc' = "groups"
    /\ UNCHANGED <<a_file, a_max, a_dry, a_funcs, a_prompts, a_written,
                   a_generated>>

\* Line 379 or 428: base_dir.mkdir raises; analyze_file raises.
AnalyzeMkdirRaises ==
    /\ a_pc = "parsed"
    /\ DOMAIN a_funcs # {}
    /\ a_edges' = ResolvedEdges(a_funcs)
    /\ a_groups' = build_groups(sorted(DOMAIN a_funcs), a_edges')
    /\ a_callers' = CallersOf(a_edges')
    /\ a_pc' = "raised"
    /\ UNCHANGED <<a_file, a_max, a_dry, a_funcs, a_idx, a_prompts,
                   a_written, a_generated>>

\* The prompt of the group the loop is at.
PromptAt(idx) ==
    GroupPrompt(a_file, a_funcs, a_edges, a_callers, a_groups[idx], a_max)

\* Lines 380-407 and 428-462: one turn of the loop over the groups.  On a
\* dry run the stub is written; otherwise call_openai returns the report, or
\* raises and the error stub is written.
AnalyzeGroup ==
    /\ a_pc = "groups"
    /\ a_idx <= Len(a_groups)
    /\ a_prompts' = Append(a_prompts, PromptAt(a_idx))
    /\ \E text \in (IF a_dry THEN {"dry run"} ELSE {"content", "error"}) :
         a_written' = DictPut(a_written, a_idx, text)
    /\ a_generated' = Append(a_generated, a_idx)
    /\ a_idx' = a_idx + 1
    /\ UNCHANGED <<a_file, a_max, a_dry, a_funcs, a_edges, a_callers,
                   a_groups, a_pc>>

\* Lines 390, 400 or 404: md_path.write_text raises; analyze_file raises.
AnalyzeWriteRaises ==
    /\ a_pc = "groups"
    /\ a_idx <= Len(a_groups)
    /\ a_prompts' = Append(a_prompts, PromptAt(a_idx))
    /\ a_pc' = "raised"
    /\ UNCHANGED <<a_file, a_max, a_dry, a_funcs, a_edges, a_callers,
                   a_groups, a_idx, a_written, a_generated>>

\* Lines 408 and 463: return generated.
AnalyzeReturn ==
    /\ a_pc = "groups"
    /\ a_idx > Len(a_groups)
    /\ a_pc' = "returned"
    /\ UNCHANGED <<a_file, a_max, a_dry, a_funcs, a_edges, a_callers,
                   a_groups, a_idx, a_prompts, a_written, a_generated>>

InitF ==
    InitFile /\ GroupsIdle /\ BraceIdle /\ JsIdle /\ RunIdle /\ OpenaiIdle

NextF ==
    \/ AnalyzeSkip /\ UNCHANGED <<gvars, bvars, jvars, rvars, ovars>>
    \/ AnalyzeParse /\ UNCHANGED <<gvars, bvars, jvars, rvars, ovars>>
    \/ AnalyzeEmpty /\ UNCHANGED <<gvars, bvars, jvars, rvars, ovars>>
    \/ AnalyzeGraph /\ UNCHANGED <<gvars, bvars, jvars, rvars, ovars>>
    \/ AnalyzeMkdirRaises /\ UNCHANGED <<gvars, bvars, jvars, rvars, ovars>>
    \/ AnalyzeGroup /\ UNCHANGED <<gvars, bvars, jvars, rvars, ovars>>
    \/ AnalyzeWriteRaises /\ UNCHANGED <<gvars, bvars, jvars, rvars, ovars>>
    \/ AnalyzeReturn /\ UNCHANGED <<gvars, bvars, jvars, rvars, ovars>>

SpecFile == InitF /\ [][NextF]_vars

-----------------------------------------------------------------------------
(* Claims about parse_python_functions                                      *)

\* parse_python_functions has returned the records of a Python file.
PyParsed ==
    /\ a_pc \in {"parsed", "groups", "returned", "raised"}
    /\ Language(a_file) = "python"
    /\ ~ReadTextNone(a_file)

\* The definitions of the name n in the file.
DefsNamed(defs, n) == {i \in 1..Len(defs) : defs[i].name = n}

\* The definition of the name n that the traversal visits last: the last
\* nested one if there is a nested one, the last one otherwise.
LastVisited(defs, n) ==
    LET nested == {i \in DefsNamed(defs, n) : defs[i].depth = 1}
    IN  IF nested # {} THEN SetMax(nested) ELSE SetMax(DefsNamed(defs, n))

\* C11: there is one record for each name defined in the file, and its
\* span, its source text and its raw callee set are those of the definition
\* of the name that the traversal visits last: the calls made inside the
\* other definitions of the name contribute nothing to the record.
C11_LastDefinitionKept ==
    (PyParsed /\ ~a_file.broken) =>
        LET defs == a_file.defs
        IN  /\ DOMAIN a_funcs = {defs[i].name : i \in 1..Len(defs)}
            /\ \A n \in DOMAIN a_funcs :
                 LET k == LastVisited(defs, n)
                 IN  /\ a_funcs[n].name = n
                     /\ a_funcs[n].start = Lineno(defs, k)
                     /\ a_funcs[n].end = EndLineno(defs, k)
                     /\ a_funcs[n].src = SourceSegment(defs, k)
                     /\ a_funcs[n].calls = VisitorCalls(defs, k)

\* The names a subtree's call statements carry: the name of a call f(), the
\* trailing attribute of a call x.f(), nothing for any other callee.
CallNamesIn(defs, i) ==
    {defs[j].call.id :
        j \in {m \in Subtree(defs, i) :
                 defs[m].call.kind \in {"Name", "Attribute"}}}

\* C12: the raw callee set of a function record is exactly the set of the
\* names of the calls in the subtree of its definition, the calls inside the
\* definitions nested in it included: f() gives f, x.f() gives f, a call
\* whose callee is neither a name nor an attribute gives nothing.
C12_RawCallees ==
    (PyParsed /\ ~a_file.broken) =>
        \A n \in DOMAIN a_funcs :
            a_funcs[n].calls =
                CallNamesIn(a_file.defs, LastVisited(a_file.defs, n))

-----------------------------------------------------------------------------
(* Claims about the call graph and the groups of analyze_file               *)

\* analyze_file has built names, edges, groups and callers.
FileGraphed ==
    /\ a_pc \in {"groups", "returned", "raised"}
    /\ DOMAIN a_funcs # {}

\* Every name a text of the model can hold.
AllNames == SeqToSet(NameOrder) \cup Words

\* C13: on both language paths, edges maps every extracted name to exactly
\* those of its raw callees that are extracted names of the file (the other
\* identifiers are dropped), and callers is the exact inverse of edges:
\* a is in callers[b] if and only if b is in edges[a].
C13_EdgesAndCallers ==
    FileGraphed =>
        /\ DOMAIN a_edges = DOMAIN a_funcs
        /\ DOMAIN a_callers = DOMAIN a_funcs
        /\ \A a \in DOMAIN a_funcs : \A b \in AllNames :
             b \in a_edges[a] <=>
                 (b \in a_funcs[a].calls /\ b \in DOMAIN a_funcs)
        /\ \A a, b \in DOMAIN a_funcs :
             a \in a_callers[b] <=> b \in a_edges[a]

\* A file in which one function calls another one, which calls a name that
\* is not a function of the file: the first call is an edge and has its
\* inverse, the second is dropped.
C13_Witness ==
    /\ FileGraphed
    /\ \E a, b \in DOMAIN a_funcs :
         /\ a # b
         /\ b \in a_edges[a] /\ a \in a_callers[b]
         /\ a \notin a_edges[b]
         /\ a_funcs[b].calls # {} /\ a_edges[b] = {}

\* C14: no name is in its own resolved callee set or in its own caller set,
\* also when the function calls itself.
C14_NoSelfEdge ==
    FileGraphed =>
        \A n \in DOMAIN a_funcs : n \notin a_edges[n] /\ n \notin a_callers[n]

\* C18: the resolved callees and callers of a member of a group are members
\* of that group, so the callees and callers handed over with a group, cut
\* down to the group, are the whole resolved sets.
C18_EdgesWithinGroups ==
    FileGraphed =>
        /\ \A i \in 1..Len(a_groups) : \A n \in a_groups[i] :
             a_edges[n] \subseteq a_groups[i] /\ a_callers[n] \subseteq a_groups[i]
        /\ \A k \in 1..Len(a_prompts) : \A n \in a_groups[k] :
             /\ a_prompts[k].callees[n] = a_edges[n]
             /\ a_prompts[k].callers[n] = a_callers[n]

\* The prompts of two groups have been made: a group of two functions, one
\* calling the other, and a group of one function.
C18_Witness ==
    /\ FileGraphed
    /\ Len(a_prompts) = 2
    /\ \E n, m \in a_groups[1] :
         /\ n # m
         /\ m \in a_edges[n]
         /\ a_prompts[1].callees[n] = {m} /\ a_prompts[1].callers[m] = {n}
    /\ Cardinality(a_groups[2]) = 1

\* The <<name, source text>> pairs of the entries of a list group_funcs.
Handed(group_funcs) ==
    {<<group_funcs[i][1], group_funcs[i][2]>> : i \in 1..Len(group_funcs)}

\* C15: the k-th call of make_group_prompt is for the k-th group of the
\* file; it is given every member of the group with its source text and, for
\* each member, its resolved callees and callers cut down to the group; and
\* the relationship list it builds has a line for every member of the group,
\* on the Python path and on the JS/TS path.
C15_GroupHandedWhole ==
    \A k \in 1..Len(a_prompts) :
        LET g  == a_groups[k]
            pr == a_prompts[k]
        IN  /\ Handed(pr.group_funcs) = {<<n, a_funcs[n].src>> : n \in g}
            /\ \A n \in g : /\ pr.callees[n] = a_edges[n] \cap g
                            /\ pr.callers[n] = a_callers[n] \cap g
            /\ {pr.rel_lines[i].name : i \in 1..Len(pr.rel_lines)} = g
            /\ \A i \in 1..Len(pr.rel_lines) :
                 LET n == pr.rel_lines[i].name
                 IN  /\ pr.rel_lines[i].calls = sorted(a_edges[n] \cap g)
                     /\ pr.rel_lines[i].called_by = sorted(a_callers[n] \cap g)

-----------------------------------------------------------------------------
(* call_openai, lines 249-265                                               *)

\* Bound: the largest value of the parameter retries (its default is 3, and
\* analyze_file calls with the default; the values are at least 1).
MaxRetries == 3

\* The exceptions client.chat.completions.create raises in the model, and
\* the contents it returns.
Errors == {"APITimeoutError", "RateLimitError", "APIConnectionError"}

Responses == {"report A", "report B"}

\* Line 251, the mutant: the loop makes one attempt more.
AttemptsOneMore(retries) == retries + 1

\* Line 251: for i in range(retries)
Attempts(retries) == retries

\* Line 264: the argument of time.sleep, 1.5 * (i+1) seconds, counted in
\* half seconds.
SleepHalves(i) == 3 * (i + 1)

InitOpenai ==
    /\ o_retries \in 1..MaxRetries
    /\ o_i = 0
    /\ o_last_err = None
    /\ o_log = <<>>
    /\ o_slept = <<>>
    /\ o_result = None
    /\ o_pc = "loop"

\* Lines 251-261: the attempt of this turn succeeds; its content is returned.
OpenaiReturn ==
    /\ o_pc = "loop"
    /\ o_i < Attempts(o_retries)
    /\ \E r \in Responses :
         /\ o_log' = Append(o_log, [ok |-> TRUE, val |-> r])
         /\ o_result' = r
    /\ o_pc' = "returned"
    /\ UNCHANGED <<o_retries, o_i, o_last_err, o_slept>>

\* Lines 251-264: the attempt of this turn raises; the handler keeps the
\* error, sleeps, and the loop goes to its next turn.
OpenaiExcept ==
    /\ o_pc = "loop"
    /\ o_i < Attempts(o_retries)
    /\ \E e \in Errors :
         /\ o_log' = Append(o_log, [ok |-> FALSE, val |-> e])
         /\ o_last_err' = e
    /\ o_slept' = Append(o_slept, SleepHalves(o_i))
    /\ o_i' = o_i + 1
    /\ UNCHANGED <<o_retries, o_result, o_pc>>

\* Line 265: the loop is over; raise last_err.
OpenaiRaise ==
    /\ o_pc = "loop"
    /\ o_i >= Attempts(o_retries)
    /\ o_result' = o_last_err
    /\ o_pc' = "raised"
    /\ UNCHANGED <<o_retries, o_i, o_last_err, o_log, o_slept>>

InitO == InitOpenai /\ GroupsIdle /\ BraceIdle /\ JsIdle /\ FileIdle /\ RunIdle

NextO ==
    \/ OpenaiReturn /\ UNCHANGED <<gvars, bvars, jvars, avars, rvars>>
    \/ OpenaiExcept /\ UNCHANGED <<gvars, bvars, jvars, avars, rvars>>
    \/ OpenaiRaise /\ UNCHANGED <<gvars, bvars, jvars, avars, rvars>>

\* The code is sequential and every attempt ends (it returns or it raises),
\* so a step that can be taken is taken.
SpecOpenai == InitO /\ [][NextO]_vars /\ WF_vars(NextO)

-----------------------------------------------------------------------------
(* Claims about call_openai                                                 *)

\* The attempts before the k-th one failed.
FailedBefore(k) == \A j \in 1..(k - 1) : ~o_log[j].ok

\* What holds of call_openai at every point of a call; a sleep of 1.5 * k
\* seconds is 3 * k half seconds.
OpenaiSafe ==
    /\ Len(o_log) <= o_retries
    /\ \A k \in 1..Len(o_log) : o_log[k].ok => k = Len(o_log) /\ o_pc = "returned"
    /\ o_pc = "returned" =>
          /\ Len(o_log) >= 1 /\ o_log[Len(o_log)].ok
          /\ FailedBefore(Len(o_log))
          /\ o_result = o_log[Len(o_log)].val
    /\ o_pc = "raised" =>
          /\ Len(o_log) = o_retries
          /\ FailedBefore(o_retries + 1)
          /\ o_result = o_log[o_retries].val
    /\ Len(o_slept) = Cardinality({k \in 1..Len(o_log) : ~o_log[k].ok})
    /\ \A k \in 1..Len(o_slept) : o_slept[k] = 3 * k

\* C20: call_openai ends after at most `retries` attempts made one after
\* the other: it returns the content of the first attempt that succeeds and
\* makes no attempt after it, it raises the error of the last attempt only
\* when all `retries` attempts failed, and after the failed attempt number i
\* (from 0) it sleeps 1.5 * (i+1) seconds.
C20_Terminates ==
    /\ []OpenaiSafe
    /\ <>(o_pc \in {"returned", "raised"})

\* A call that returned at its third attempt, after two attempts that
\* failed with different errors and sleeps of 1.5 and 3 seconds.
C20_Witness ==
    /\ o_pc = "returned"
    /\ o_retries = 3
    /\ Len(o_log) = 3
    /\ o_log[1].val # o_log[2].val
    /\ o_slept = <<3, 6>>
    /\ o_last_err = o_log[2].val

-----------------------------------------------------------------------------
(* main, lines 466-509: the pool of workers and the collection of results   *)

\* Lines 350-372 and 413-421 as one function: the groups analyze_file finds
\* in a file; none if the file is skipped or has no function.
AnalyzeGroups(file) ==
    IF ReadTextNone(file) THEN <<>>
    ELSE LET funcs == ParseFile(file)
         IN  IF DOMAIN funcs = {} THEN <<>>
             ELSE build_groups(sorted(DOMAIN funcs), ResolvedEdges(funcs))

\* The contents of the files of a repository of the model: a Python file
\* with one function, one with two unrelated functions, one that does not
\* parse, an empty one, a JS file with one function, a file that is too
\* large and one that cannot be read.
PyContent(defs, broken) ==
    [ext |-> ".py", stat |-> "ok", defs |-> defs, broken |-> broken,
     items |-> <<>>]

RunContents ==
    {PyContent(<<[name |-> "f", call |-> NoCall, depth |-> 0]>>, FALSE),
     PyContent(<<[name |-> "f", call |-> NoCall, depth |-> 0],
                 [name |-> "g", call |-> NoCall, depth |-> 0]>>, FALSE),
     PyContent(<<[name |-> "f", call |-> NoCall, depth |-> 0]>>, TRUE),
     PyContent(<<>>, FALSE),
     [ext |-> ".js", stat |-> "ok", defs |-> <<>>, broken |-> FALSE,
      items |-> <<[kind |-> "decl", name |-> "f", body |-> "empty"]>>],
     [ext |-> ".js", stat |-> "large", defs |-> <<>>, broken |-> FALSE,
      items |-> <<>>],
     [ext |-> ".py", stat |-> "unreadable", defs |-> <<>>, broken |-> FALSE,
      items |-> <<>>]}

\* Lines 222-231, list_code_files: a file is at a directory of the tree,
\* under a name made of a stem and the extension of its content.
RunFiles ==
    [dir : {"", "lib"}, stem : {"a"}, content : RunContents] \cup
    [dir : {""}, stem : {"b"}, content : RunContents]

\* The path p of a source file.
SourcePath(f) == <<f.dir, f.stem, f.content.ext>>

\* Lines 378, 387 and 427, 445: md_path = outdir / p.stem / f"group_{idx}.md"
ReportPath(f, idx) == <<f.stem, idx>>

\* Bound: the number of source files of the repository.
MaxFiles == 2

\* Line 17 and 495: the sizes of the pool, max(1, args.max_workers).
PoolSizes == {1, 2}

InitRun ==
    /\ r_files \in {F \in SUBSET RunFiles :
                      /\ F # {} /\ Cardinality(F) <= MaxFiles
                      /\ \A f, h \in F : SourcePath(f) = SourcePath(h) => f = h}
    /\ r_workers \in PoolSizes
    /\ r_task = [f \in r_files |-> "queued"]
    /\ r_count = [f \in r_files |-> Len(AnalyzeGroups(f.content))]
    /\ r_idx = [f \in r_files |-> 0]
    /\ r_disk = <<>>
    /\ r_wrote = {}
    /\ r_seen = {}
    /\ r_all = <<>>
    /\ r_pc = "collect"

\* A worker of the pool takes the call analyze_file(p) submitted at line
\* 496 and runs it to the start of its loop over the groups (lines 350-379).
\* The groups it finds there are a function of the text of the file, and
\* r_count holds their number from the start.
TaskStart(f) ==
    /\ r_task[f] = "queued"
    /\ Cardinality({h \in r_files : r_task[h] = "running"}) < r_workers
    /\ r_task' = [r_task EXCEPT ![f] = "running"]
    /\ r_idx' = [r_idx EXCEPT ![f] = 1]
    /\ UNCHANGED <<r_files, r_workers, r_count, r_disk, r_wrote, r_seen,
                   r_all, r_pc>>

\* Lines 380-407: one turn of the loop over the groups; the report (or its
\* stub) is written at md_path.
TaskWrite(f) ==
    /\ r_task[f] = "running"
    /\ r_idx[f] <= r_count[f]
    /\ r_disk' = DictPut(r_disk, ReportPath(f, r_idx[f]), SourcePath(f))
    /\ r_wrote' = r_wrote \cup {<<SourcePath(f), ReportPath(f, r_idx[f])>>}
    /\ r_idx' = [r_idx EXCEPT ![f] = @ + 1]
    /\ UNCHANGED <<r_files, r_workers, r_task, r_count, r_seen, r_all, r_pc>>

\* Lines 379, 390, 400 or 404: mkdir or write_text raises; the call
\* analyze_file(p) raises.
TaskRaise(f) ==
    /\ r_task[f] = "running"
    /\ r_idx[f] <= r_count[f]
    /\ r_task' = [r_task EXCEPT ![f] = "raised"]
    /\ UNCHANGED <<r_files, r_workers, r_count, r_idx, r_disk, r_wrote,
                   r_seen, r_all, r_pc>>

\* Line 408: return generated.
TaskReturn(f) ==
    /\ r_task[f] = "running"
    /\ r_idx[f] > r_count[f]
    /\ r_task' = [r_task EXCEPT ![f] = "returned"]
    /\ UNCHANGED <<r_files, r_workers, r_count, r_idx, r_disk, r_wrote,
                   r_seen, r_all, r_pc>>

\* The list analyze_file(p) returned: the paths of its reports.
MdPaths(f) == [i \in 1..r_count[f] |-> ReportPath(f, i)]

\* Lines 499-507, the mutant: fut.result() is not in a try statement; the
\* exception of a failed call leaves the loop and main.
CollectNoTry(f) ==
    /\ r_pc = "collect"
    /\ f \notin r_seen
    /\ r_task[f] \in {"returned", "raised"}
    /\ IF r_task[f] = "returned"
       THEN /\ r_all' = r_all \o MdPaths(f)
            /\ r_seen' = r_seen \cup {f}
            /\ r_pc' = r_pc
       ELSE /\ r_pc' = "failed"
            /\ UNCHANGED <<r_all, r_seen>>
    /\ UNCHANGED <<r_files, r_workers, r_task, r_count, r_idx, r_disk,
                   r_wrote>>

\* Lines 499-507: one turn of the loop over as_completed(futs): the result
\* of a call that returned is added to generated_all, the exception of a
\* call that raised is printed.
Collect(f) ==
    /\ r_pc = "collect"
    /\ f \notin r_seen
    /\ r_task[f] \in {"returned", "raised"}
    /\ r_all' = IF r_task[f] = "returned" THEN r_all \o MdPaths(f) ELSE r_all
    /\ r_seen' = r_seen \cup {f}
    /\ UNCHANGED <<r_files, r_workers, r_task, r_count, r_idx, r_disk,
                   r_wrote, r_pc>>

\* Line 509: every future was yielded; print "Done. Wrote ...".
Done ==
    /\ r_pc = "collect"
    /\ r_seen = r_files
    /\ r_pc' = "done"
    /\ UNCHANGED <<r_files, r_workers, r_task, r_count, r_idx, r_disk,
                   r_wrote, r_seen, r_all>>

InitR ==
    InitRun /\ GroupsIdle /\ BraceIdle /\ JsIdle /\ FileIdle /\ OpenaiIdle

NextR ==
    \/ \E f \in r_files :
         TaskStart(f) /\ UNCHANGED <<gvars, bvars, jvars, avars, ovars>>
    \/ \E f \in r_files :
         TaskWrite(f) /\ UNCHANGED <<gvars, bvars, jvars, avars, ovars>>
    \/ \E f \in r_files :
         TaskRaise(f) /\ UNCHANGED <<gvars, bvars, jvars, avars, ovars>>
    \/ \E f \in r_files :
         TaskReturn(f) /\ UNCHANGED <<gvars, bvars, jvars, avars, ovars>>
    \/ \E f \in r_files :
         Collect(f) /\ UNCHANGED <<gvars, bvars, jvars, avars, ovars>>
    \/ Done /\ UNCHANGED <<gvars, bvars, jvars, avars, ovars>>

\* The pool runs every submitted call and as_completed yields every future
\* that is done, so a step that can be taken is taken.
SpecRun == InitR /\ [][NextR]_vars /\ WF_vars(NextR)

-----------------------------------------------------------------------------
(* Claims about main and the output tree                                    *)

\* The text of the file cannot be read, is too large, is empty or does not
\* parse.
NoText(c) ==
    \/ c.stat \in {"large", "unreadable"}
    \/ c.ext = ".py" /\ (c.broken \/ c.defs = <<>>)
    \/ c.ext = ".js" /\ c.items = <<>>

\* The report paths the source file at path p has written.
WrittenBy(p) == {w[2] : w \in {v \in r_wrote : v[1] = p}}

\* The paths of the list generated_all.
Collected == SeqToSet(r_all)

RunSafe ==
    /\ r_pc \in {"collect", "done"}
    /\ \A f \in r_files : NoText(f.content) =>
         /\ r_task[f] # "raised"
         /\ r_count[f] = 0
         /\ WrittenBy(SourcePath(f)) = {}
    /\ \A f \in r_seen : r_task[f] = "returned" =>
         \A i \in 1..r_count[f] : ReportPath(f, i) \in Collected
    /\ r_pc = "done" =>
         /\ r_seen = r_files
         /\ \A f \in r_files : r_task[f] \in {"returned", "raised"}
         /\ Collected =
              UNION {SeqToSet(MdPaths(f)) :
                       f \in {h \in r_files : r_task[h] = "returned"}}

\* C16: a file whose text is unreadable, oversized, empty or unparsable
\* gives no function and no group, and its analyze_file returns the empty
\* list without raising; when analyze_file raises for a file, main still
\* collects the lists returned for all the other files, and the run always
\* reaches its last step, the line that prints Done.
C16_FailuresContained ==
    /\ []RunSafe
    /\ <>(r_pc = "done")

\* A finished run in which analyze_file raised for one file after it had
\* written a report, and the two reports of the other file were collected.
C16_Witness ==
    /\ r_pc = "done"
    /\ \E f, h \in r_files :
         /\ r_task[f] = "raised" /\ WrittenBy(SourcePath(f)) # {}
         /\ r_task[h] = "returned" /\ r_count[h] = 2
         /\ Len(r_all) = 2

\* C19: in one run the report paths written for two different source files
\* are different, whatever the order of the workers' steps: no report of a
\* file is written over the report of another file.
C19_DistinctReportPaths ==
    \A v, w \in r_wrote : v[1] # w[1] => v[2] # w[2]

=============================================================================
